---- MODULE Spec2Model ----
(***************************************************************************)
(* Model of src/index.js: the rule feed normalizer                        *)
(* (loadBadDependencyRules), the version matcher (matchBadRules), the     *)
(* lockfile walker (scanPackageLock) and the run loop (run).              *)
(*                                                                         *)
(* JavaScript strings are sequences of one-character strings, so that the *)
(* key-normalizing regular expression, String.prototype.trim and          *)
(* semver.coerce are computed on characters.                              *)
(***************************************************************************)
EXTENDS Naturals, Integers, Sequences, FiniteSets, TLC

VARIABLES
    rawKey, key,                            \* the key normalization of visit
    packageName, version, rules, matched,   \* one call of matchBadRules
    json, findings,                         \* one call of scanPackageLock
    feedData, loaded,                       \* one call of loadBadDependencyRules
    pc, feed, badRules, files, fileIdx, allFindings, failed, scans, log  \* run

vars == <<rawKey, key, packageName, version, rules, matched, json, findings,
          feedData, loaded, pc, feed, badRules, files, fileIdx, allFindings, failed, scans, log>>

keyVars == <<rawKey, key>>
matchVars == <<packageName, version, rules, matched>>
scanVars == <<json, findings>>
loadVars == <<feedData, loaded>>
runVars == <<pc, feed, badRules, files, fileIdx, allFindings, failed, scans, log>>

----------------------------------------------------------------------------
(* Bounds of the model.                                                    *)

MaxKeyLen == 5
MaxFeedLen == 3
MaxNodes == 3
MaxFiles == 3

----------------------------------------------------------------------------
(* JavaScript values.                                                      *)

Undefined == [t |-> "undefined"]
Null == [t |-> "null"]
Str(s) == [t |-> "string", s |-> s]
Num(n) == [t |-> "number", n |-> n]
Fn(len) == [t |-> "function", length |-> len]
Arr(items) == [t |-> "array", items |-> items]

\* ToBoolean of the values the model uses
Truthy(v) ==
    CASE v.t = "undefined" -> FALSE
      [] v.t = "null" -> FALSE
      [] v.t = "string" -> Len(v.s) > 0
      [] v.t = "number" -> v.n # 0
      [] OTHER -> TRUE

\* s[i..j] as a sequence (empty when i > j)
Slice(s, i, j) == [k \in 1..(IF j >= i THEN j - i + 1 ELSE 0) |-> s[i + k - 1]]

\* all sequences over S of length at most n
SeqsUpTo(S, n) == UNION {[1..k -> S] : k \in 0..n}

\* F applied to the value of v, which is computed once
Bind(v, F(_)) == CHOOSE r \in {F(x) : x \in {v}} : TRUE

----------------------------------------------------------------------------
(* Strings that occur in the rule feeds and lockfiles of the model.        *)

ACME_BAD == <<"@","a","c","m","e","/","b","a","d">>
EVIL_PACKAGE == <<"e","v","i","l","-","p","a","c","k","a","g","e">>
CONSTRUCTOR == <<"c","o","n","s","t","r","u","c","t","o","r">>
VALUE_OF == <<"v","a","l","u","e","O","f">>
UNDEFINED_STR == <<"u","n","d","e","f","i","n","e","d">>
DEPENDENCIES == <<"d","e","p","e","n","d","e","n","c","i","e","s">>
NODE_MODULES == <<"n","o","d","e","_","m","o","d","u","l","e","s">>
NM_ACME_BAD == NODE_MODULES \o <<"/">> \o ACME_BAD
NM_FOO == NODE_MODULES \o <<"/","f","o","o">>
NM_NESTED == NODE_MODULES \o <<"/","a","/">> \o NODE_MODULES \o <<"/","@","s","c","o","p","e","/","b">>
ROOT_LOCATION == <<"<","r","o","o","t",">">>

----------------------------------------------------------------------------
(* Key normalization: rawKey.replace(/^.*?((?:@[^\/]+\/)?[^\/]+)$/, "$1") *)

LineTerminators == {"\n", "\r"}

\* [^\/]+ from position p up to the end of s
PlainTail(s, p) == p <= Len(s) /\ \A i \in p..Len(s) : s[i] # "/"

\* @[^\/]+\/ followed by [^\/]+, from position p up to the end of s
ScopedTail(s, p) ==
    /\ p <= Len(s)
    /\ s[p] = "@"
    /\ \E j \in (p + 2)..(Len(s) - 1) :
          /\ s[j] = "/"
          /\ \A i \in (p + 1)..(j - 1) : s[i] # "/"
          /\ PlainTail(s, j + 1)

\* the group ((?:@[^\/]+\/)?[^\/]+)$ matches s from position p on
GroupMatches(s, p) == ScopedTail(s, p) \/ PlainTail(s, p)

\* the lengths of the lazy prefix .*? for which the rest of the key matches
PrefixLens(s) ==
    {p \in 0..Len(s) :
        /\ \A i \in 1..p : s[i] \notin LineTerminators
        /\ GroupMatches(s, p + 1)}

Min(S) == CHOOSE x \in S : \A y \in S : x <= y

\* the lazy prefix is the shortest one; without a match replace changes nothing
NormalizeKey(s) ==
    Bind(PrefixLens(s),
         LAMBDA ps : IF ps = {} THEN s ELSE Slice(s, Min(ps) + 1, Len(s)))

----------------------------------------------------------------------------
(* String.prototype.trim, on the white space the model's strings hold.     *)

WhiteSpace == {" ", "\t", "\n", "\r"}

\* the positions of s that hold no white space
Inked(s) == {i \in 1..Len(s) : s[i] \notin WhiteSpace}

Max(S) == CHOOSE x \in S : \A y \in S : x >= y

Trim(s) ==
    Bind(Inked(s),
         LAMBDA ink : IF ink = {} THEN <<>> ELSE Slice(s, Min(ink), Max(ink)))

----------------------------------------------------------------------------
(* The semver library, as far as matchBadRules uses it.                    *)
(*                                                                         *)
(* semver.coerce searches the first match of                               *)
(*   (^|[^\d])(\d{1,16})(?:\.(\d{1,16}))?(?:\.(\d{1,16}))?(?:$|[^\d])      *)
(* and parses major.minor.patch, a missing minor or patch being 0. The     *)
(* model's version strings hold digit runs shorter than 16, so the first   *)
(* match starts at the first digit and takes whole digit runs.             *)

Digits == {"0", "1", "2", "3", "4", "5", "6", "7", "8", "9"}

DigitVal(c) ==
    CASE c = "0" -> 0 [] c = "1" -> 1 [] c = "2" -> 2 [] c = "3" -> 3
      [] c = "4" -> 4 [] c = "5" -> 5 [] c = "6" -> 6 [] c = "7" -> 7
      [] c = "8" -> 8 [] c = "9" -> 9

\* the length of the digit run of s that starts at position i
RECURSIVE RunLen(_, _)
RunLen(s, i) ==
    IF i <= Len(s) /\ s[i] \in Digits THEN 1 + RunLen(s, i + 1) ELSE 0

\* the number the first n digits of run write
RECURSIVE RunPrefixVal(_, _)
RunPrefixVal(run, n) ==
    IF n = 0 THEN 0 ELSE 10 * RunPrefixVal(run, n - 1) + DigitVal(run[n])

RunVal(run) == RunPrefixVal(run, Len(run))

\* a numeric identifier with a leading zero does not parse
LeadingZero(run) == Len(run) > 1 /\ run[1] = "0"

\* the digit run of s at position i when s[i - 1] is a dot, "0" when there is none
DottedRun(s, i) ==
    IF i - 1 <= Len(s) /\ s[i - 1] = "." /\ RunLen(s, i) > 0
    THEN Slice(s, i, i + RunLen(s, i) - 1)
    ELSE <<>>

OrZero(run) == IF Len(run) = 0 THEN <<"0">> ELSE run

\* parse of major.minor.patch
SemverParse(major, minor, patch) ==
    IF LeadingZero(major) \/ LeadingZero(minor) \/ LeadingZero(patch)
    THEN Null
    ELSE [t |-> "semver", major |-> RunVal(major), minor |-> RunVal(minor),
          patch |-> RunVal(patch)]

SemverCoerce(s) ==
    Bind({i \in 1..Len(s) : s[i] \in Digits}, LAMBDA ds :
      IF ds = {} THEN Null
      ELSE
        Bind(Slice(s, Min(ds), Min(ds) + RunLen(s, Min(ds)) - 1), LAMBDA major :
        Bind(DottedRun(s, Min(ds) + Len(major) + 1), LAMBDA minor :
        Bind(IF Len(minor) = 0 THEN <<>>
             ELSE DottedRun(s, Min(ds) + Len(major) + Len(minor) + 2), LAMBDA patch :
          SemverParse(major, OrZero(minor), OrZero(patch))))))

\* the range patterns of the model's rule feeds
STAR == <<"*">>
STAR_PADDED == <<" ", "*", " ">>
X_RANGE == <<"1", ".", "0", ".", "*">>
CARET_RANGE == <<"^", "1", ".", "1", ".", "2">>
NOT_A_RANGE == <<"l", "a", "t", "e", "s", "t">>

\* semver.satisfies(v, range, {includePrerelease: true}) of a coerced version
\* (which has no pre-release part); a string that is no range satisfies nothing
SemverSatisfies(v, range) ==
    \E r \in {Trim(range)} :
        CASE r = STAR -> TRUE
          [] r = <<>> -> TRUE
          [] r = X_RANGE -> v.major = 1 /\ v.minor = 0
          [] r = CARET_RANGE ->
                v.major = 1 /\ (v.minor > 1 \/ (v.minor = 1 /\ v.patch >= 2))
          [] OTHER -> FALSE

----------------------------------------------------------------------------
(* Property lookup on the rules object, which is created as {} and so      *)
(* inherits Object.prototype.                                              *)

\* Object.prototype[name], for the names the model uses
ProtoProp(name) ==
    CASE name = CONSTRUCTOR -> Fn(1)      \* Object, whose length is 1
      [] name = VALUE_OF -> Fn(0)         \* Object.prototype.valueOf
      [] OTHER -> Undefined

\* obj[name]: the own property, else the inherited one
Get(obj, name) ==
    IF name \in DOMAIN obj THEN Arr(obj[name]) ELSE ProtoProp(name)

Return(v) == [kind |-> "return", value |-> v]
Throw(e) == [kind |-> "throw", error |-> e]

----------------------------------------------------------------------------
(* loadBadDependencyRules                                                  *)

\* an array entry of the feed; its items are strings
Entry(items) == [isArray |-> TRUE, items |-> items]
\* an entry of the feed that is no array
NonArrayEntry == [isArray |-> FALSE, items |-> <<>>]

\* the property key pkgAndRanges[0] names (undefined names "undefined")
EntryName(e) == IF Len(e.items) = 0 THEN UNDEFINED_STR ELSE e.items[1]

\* pkgAndRanges.slice(1).map(String)
EntryRanges(e) == IF Len(e.items) = 0 THEN <<>> ELSE Tail(e.items)

\* normalized, with ranges pushed on normalized[name]
PushRanges(normalized, name, ranges) ==
    [n \in DOMAIN normalized \cup {name} |->
        IF n = name
        THEN (IF name \in DOMAIN normalized THEN normalized[name] ELSE <<>>) \o ranges
        ELSE normalized[n]]

\* one iteration of the loop over data: the next value of normalized, or a throw
NormalizeEntry(normalized, e) ==
    IF e.isArray
    THEN Bind(Get(normalized, EntryName(e)), LAMBDA cur :
           IF ~Truthy(cur) \/ cur.t = "array"
           THEN Return(PushRanges(normalized, EntryName(e), EntryRanges(e)))
           \* [].push.apply on an inherited function: its length is read-only
           ELSE Throw("TypeError"))
    \* the warning's template reads the undeclared variable pkg
    ELSE Throw("ReferenceError")

\* the loop over data from entry i on, with normalized as built so far
RECURSIVE NormalizeFrom(_, _, _)
NormalizeFrom(data, i, normalized) ==
    IF i > Len(data) THEN Return(normalized)
    ELSE Bind(NormalizeEntry(normalized, data[i]), LAMBDA r :
           IF r.kind = "throw" THEN r
           ELSE Bind(r.value, LAMBDA next : NormalizeFrom(data, i + 1, next)))

EmptyObject == [n \in {} |-> <<>>]

\* the feed: what fetch and res.json() give
FeedStatuses == {"rejected", "badstatus", "notjson", "notarray", "array"}

loadBadDependencyRules(f) ==
    CASE f.status \in {"rejected", "badstatus", "notjson", "notarray"} -> Throw("Error")
      [] f.status = "array" -> NormalizeFrom(f.data, 1, EmptyObject)

----------------------------------------------------------------------------
(* matchBadRules                                                           *)

\* the callback of pkgRules.filter
RangeMatches(range, coerced) ==
    \E trimmed \in {Trim(range)} :
        IF trimmed = STAR THEN TRUE ELSE SemverSatisfies(coerced, trimmed)

\* Filter as a first-match search would compute it: the first matching range alone
FilterFirstMatch(pkgRules, coerced) ==
    Bind(SelectSeq(pkgRules, LAMBDA range : RangeMatches(range, coerced)),
         LAMBDA all : IF Len(all) = 0 THEN <<>> ELSE <<Head(all)>>)

\* pkgRules.filter(...): the ranges that match, in their order
Filter(pkgRules, coerced) ==
    SelectSeq(pkgRules, LAMBDA range : RangeMatches(range, coerced))

\* HasWildcard as it would be without the trim
HasWildcardUntrimmed(pkgRules) == \E i \in 1..Len(pkgRules) : pkgRules[i] = STAR

\* pkgRules.some((r) => r.trim() === "*")
HasWildcard(pkgRules) == \E i \in 1..Len(pkgRules) : Trim(pkgRules[i]) = STAR

\* pkgRules.length
LengthOf(pkgRules) ==
    CASE pkgRules.t = "array" -> Len(pkgRules.items)
      [] pkgRules.t = "function" -> pkgRules.length

\* matchBadRules once rules[packageName] is read into pkgRules
MatchRules(pkgRules, ver) ==
    IF ~Truthy(pkgRules) \/ LengthOf(pkgRules) = 0 THEN Return(Null)
    ELSE IF ver.t # "string" \/ ~Truthy(ver) THEN Return(Null)
    ELSE Bind(SemverCoerce(ver.s), LAMBDA coerced :
           IF coerced = Null
           THEN \* an inherited function has no method some
                IF pkgRules.t # "array" THEN Throw("TypeError")
                ELSE IF HasWildcard(pkgRules.items) THEN Return(Arr(<<STAR>>))
                ELSE Return(Null)
           ELSE \* an inherited function has no method filter
                IF pkgRules.t # "array" THEN Throw("TypeError")
                ELSE Bind(Filter(pkgRules.items, coerced), LAMBDA matchedRanges :
                       IF Len(matchedRanges) > 0 THEN Return(Arr(matchedRanges))
                       ELSE Return(Null)))

matchBadRules(name, ver, ruleSet) ==
    Bind(Get(ruleSet, name), LAMBDA pkgRules : MatchRules(pkgRules, ver))

----------------------------------------------------------------------------
(* scanPackageLock                                                         *)
(*                                                                         *)
(* A parsed lockfile is a sequence of nodes in document order; node 1 is   *)
(* the root (parent 0), every other node is the value of the property      *)
(* rawKey of its parent. obj tells whether the value is an object; name    *)
(* and version are the object's fields of these names.                    *)

Node(parent, raw, obj, name, ver) ==
    [parent |-> parent, rawKey |-> raw, obj |-> obj, name |-> name, version |-> ver]

\* the property values of node i, in Object.entries order
Entries(doc, i) ==
    LET S == {j \in 1..Len(doc) : doc[j].parent = i}
        Nth(k) == CHOOSE j \in S : Cardinality({x \in S : x < j}) = k - 1
    IN [k \in 1..Cardinality(S) |-> Nth(k)]

Finding(file, location, name, ver, matchedRanges) ==
    [file |-> file, location |-> location, name |-> name, version |-> ver,
     matchedRanges |-> matchedRanges]

\* pathSoFar ? `${pathSoFar}.${key}` : key
ChildLocation(pathSoFar, k) ==
    IF Len(pathSoFar) > 0 THEN pathSoFar \o <<".">> \o k ELSE k

\* pathSoFar || "<root>"
SelfLocation(pathSoFar) ==
    IF Len(pathSoFar) > 0 THEN pathSoFar ELSE ROOT_LOCATION

\* the self-check of visit: the matcher's result for the node's own name and version
SelfCheck(node, ruleSet) ==
    IF Truthy(node.name) /\ Truthy(node.version)
    THEN matchBadRules(node.name.s, node.version, ruleSet)
    ELSE Return(Null)

\* the child-map check of visit: the matcher's result for a keyed child
ChildCheck(k, value, ruleSet) ==
    IF Truthy(Get(ruleSet, k)) /\ Truthy(value.version)
    THEN matchBadRules(k, value.version, ruleSet)
    ELSE Return(Null)

RECURSIVE visit(_, _, _, _, _, _)
RECURSIVE visitEntries(_, _, _, _, _, _)

\* findings.push(...) when the matcher returned a list
PushIfMatched(acc, m, file, location, name, ver) ==
    IF Truthy(m.value)
    THEN Return(Append(acc.value, Finding(file, location, name, ver, m.value.items)))
    ELSE acc

\* visit(node, pathSoFar) for node i. acc is Return(the findings so far), or the
\* throw that ended the walk
visit(doc, file, ruleSet, i, pathSoFar, acc) ==
    IF acc.kind = "throw" \/ ~doc[i].obj THEN acc
    ELSE Bind(SelfCheck(doc[i], ruleSet), LAMBDA m :
           IF m.kind = "throw" THEN m
           ELSE Bind(PushIfMatched(acc, m, file, SelfLocation(pathSoFar),
                                   doc[i].name.s, doc[i].version), LAMBDA acc1 :
                Bind(Entries(doc, i), LAMBDA kids :
                  visitEntries(doc, file, ruleSet, kids, pathSoFar, acc1))))

\* the loop of visit over Object.entries(node), from the entries kids on
visitEntries(doc, file, ruleSet, kids, pathSoFar, acc) ==
    IF Len(kids) = 0 \/ acc.kind = "throw" THEN acc
    ELSE Bind(Tail(kids), LAMBDA rest :
         IF ~doc[Head(kids)].obj
         THEN visitEntries(doc, file, ruleSet, rest, pathSoFar, acc)
         ELSE Bind(NormalizeKey(doc[Head(kids)].rawKey), LAMBDA k :
              Bind(ChildCheck(k, doc[Head(kids)], ruleSet), LAMBDA m :
                IF m.kind = "throw" THEN m
                ELSE Bind(ChildLocation(pathSoFar, k), LAMBDA location :
                     Bind(PushIfMatched(acc, m, file, location, k,
                                        doc[Head(kids)].version), LAMBDA acc1 :
                     Bind(visit(doc, file, ruleSet, Head(kids), location, acc1),
                          LAMBDA acc2 :
                       visitEntries(doc, file, ruleSet, rest, pathSoFar, acc2)))))))

scanPackageLock(doc, file, ruleSet) ==
    Bind(Return(<<>>), LAMBDA none : visit(doc, file, ruleSet, 1, <<>>, none))

----------------------------------------------------------------------------
(* Inputs of the model.                                                    *)

FOO == <<"f", "o", "o">>
V_1_0_0 == <<"1", ".", "0", ".", "0">>
V_1_0_2 == <<"1", ".", "0", ".", "2">>
V_1_0_5 == <<"1", ".", "0", ".", "5">>
V_1_1_3 == <<"1", ".", "1", ".", "3">>
V_2_0_0 == <<"2", ".", "0", ".", "0">>
V_9_9_9 == <<"9", ".", "9", ".", "9">>
V_PREFIXED == <<"v", "1", ".", "1">>
V_PRERELEASE == <<"1", ".", "1", ".", "2", "-", "b", "e", "t", "a", ".", "1">>
NOT_A_VERSION == <<"n", "o", "t", "-", "a", "-", "v", "e", "r", "s", "i", "o", "n">>

KeyAlphabet == {"a", "@", "/"}
KeyInputs == SeqsUpTo(KeyAlphabet, MaxKeyLen) \cup {ACME_BAD, NM_ACME_BAD, NM_FOO, NM_NESTED}

\* the feed of the README and of the comment above loadBadDependencyRules
ReadmeFeed == <<Entry(<<ACME_BAD, X_RANGE, CARET_RANGE>>), Entry(<<EVIL_PACKAGE, STAR>>)>>
ReadmeRules ==
    [n \in {ACME_BAD, EVIL_PACKAGE} |->
        IF n = ACME_BAD THEN <<X_RANGE, CARET_RANGE>> ELSE <<STAR>>]

MatchEntries ==
    {Entry(<<ACME_BAD, X_RANGE, CARET_RANGE>>), Entry(<<ACME_BAD, X_RANGE>>),
     Entry(<<ACME_BAD, CARET_RANGE>>), Entry(<<ACME_BAD>>),
     Entry(<<ACME_BAD, NOT_A_RANGE>>), Entry(<<EVIL_PACKAGE, STAR>>),
     Entry(<<EVIL_PACKAGE, X_RANGE, STAR_PADDED>>)}
MatchNames == {ACME_BAD, EVIL_PACKAGE, FOO, CONSTRUCTOR, VALUE_OF}
MatchVersions ==
    {Undefined, Num(1), Str(<<>>), Str(V_1_0_2), Str(V_1_0_5), Str(V_1_1_3),
     Str(V_2_0_0), Str(V_9_9_9), Str(V_PREFIXED), Str(V_PRERELEASE),
     Str(NOT_A_VERSION)}

\* the rule sets the normalizer returns for the feeds of MatchEntries
MatchRuleSets ==
    {NormalizeFrom(d, 1, EmptyObject).value : d \in SeqsUpTo(MatchEntries, MaxFeedLen)}

\* what a node of a scanned document may be: its obj, name and version
ScanPayloads ==
    {<<TRUE, Undefined, Undefined>>, <<TRUE, Undefined, Str(V_1_0_2)>>,
     <<TRUE, Str(ACME_BAD), Str(V_1_0_2)>>, <<FALSE, Undefined, Undefined>>}
ScanKeys == {DEPENDENCIES, NM_ACME_BAD, CONSTRUCTOR}

\* the lockfiles of a run
RootNode == Node(0, <<>>, TRUE, Undefined, Undefined)
DocBad ==
    <<RootNode, Node(1, DEPENDENCIES, TRUE, Undefined, Undefined),
      Node(2, NM_ACME_BAD, TRUE, Undefined, Str(V_1_0_2))>>
DocTwo ==
    <<Node(0, <<>>, TRUE, Str(EVIL_PACKAGE), Str(NOT_A_VERSION)),
      Node(1, ACME_BAD, TRUE, Undefined, Str(V_1_1_3))>>
DocClean ==
    <<RootNode, Node(1, NM_ACME_BAD, TRUE, Undefined, Str(NOT_A_VERSION)),
      Node(1, NM_FOO, TRUE, Undefined, Undefined)>>
DocConstructor ==
    <<RootNode, Node(1, DEPENDENCIES, TRUE, Undefined, Undefined),
      Node(2, CONSTRUCTOR, TRUE, Undefined, Str(V_1_0_0))>>

ValidFile(doc) == [valid |-> TRUE, json |-> doc]
InvalidFile == [valid |-> FALSE, json |-> <<>>]
FileContents ==
    {InvalidFile, ValidFile(DocBad), ValidFile(DocTwo), ValidFile(DocClean),
     ValidFile(DocConstructor)}

\* the entries of the feeds loadBadDependencyRules is run on
LoadEntries ==
    {NonArrayEntry, Entry(<<ACME_BAD, X_RANGE>>), Entry(<<ACME_BAD, CARET_RANGE>>),
     Entry(<<ACME_BAD>>), Entry(<<EVIL_PACKAGE, STAR>>), Entry(<<CONSTRUCTOR, STAR>>),
     Entry(<<>>)}

\* the feeds of a run
ArrayFeed(d) == [status |-> "array", data |-> d]
Feeds ==
    {[status |-> st, data |-> <<>>] : st \in FeedStatuses \ {"array"}}
    \cup {ArrayFeed(<<>>), ArrayFeed(ReadmeFeed), ArrayFeed(<<Entry(<<ACME_BAD>>)>>),
          ArrayFeed(<<NonArrayEntry>>),
          ArrayFeed(<<Entry(<<ACME_BAD, X_RANGE>>), NonArrayEntry,
                      Entry(<<EVIL_PACKAGE, STAR>>)>>),
          ArrayFeed(<<Entry(<<EVIL_PACKAGE, STAR>>), Entry(<<CONSTRUCTOR, STAR>>)>>)}

----------------------------------------------------------------------------
(* The specifications. Each one leaves the variables of the others idle.   *)

KeyIdle == rawKey = <<>> /\ key = Undefined
MatchIdle == packageName = <<>> /\ version = Undefined /\ matched = Undefined
ScanIdle == json = <<>> /\ findings = Undefined
LoadIdle == feedData = <<>> /\ loaded = Undefined
RunIdle ==
    /\ pc = "idle" /\ feed = Undefined /\ badRules = Undefined /\ files = <<>>
    /\ fileIdx = 0 /\ allFindings = <<>> /\ failed = FALSE /\ scans = 0 /\ log = <<>>

\* ---- the key normalization of visit, on every key of KeyInputs
InitKey ==
    /\ rawKey \in KeyInputs /\ key = Undefined
    /\ MatchIdle /\ rules = EmptyObject /\ ScanIdle /\ LoadIdle /\ RunIdle

Normalize ==
    /\ key = Undefined
    /\ key' = Str(NormalizeKey(rawKey))
    /\ UNCHANGED <<rawKey, matchVars, scanVars, loadVars, runVars>>

NextKey == Normalize
SpecKey == InitKey /\ [][NextKey]_vars

\* ---- matchBadRules, on the rule sets the normalizer builds
InitMatch ==
    /\ packageName \in MatchNames /\ version \in MatchVersions
    /\ rules \in MatchRuleSets /\ matched = Undefined
    /\ KeyIdle /\ ScanIdle /\ LoadIdle /\ RunIdle

Match ==
    /\ matched = Undefined
    /\ matched' = matchBadRules(packageName, version, rules)
    /\ UNCHANGED <<packageName, version, rules, keyVars, scanVars, loadVars, runVars>>

NextMatch == Match
SpecMatch == InitMatch /\ [][NextMatch]_vars

\* ---- scanPackageLock, on every document of at most MaxNodes nodes
InitScan ==
    /\ \E p \in ScanPayloads : json = <<Node(0, <<>>, p[1], p[2], p[3])>>
    /\ findings = Undefined /\ rules = ReadmeRules
    /\ KeyIdle /\ MatchIdle /\ LoadIdle /\ RunIdle

\* node i lies on the path from the root to the last node of the document
RECURSIVE OnLastPath(_, _, _)
OnLastPath(doc, i, from) ==
    IF from = 0 THEN FALSE
    ELSE i = from \/ OnLastPath(doc, i, doc[from].parent)

\* the document grows by one property, in document order
AddNode ==
    /\ findings = Undefined
    /\ Len(json) < MaxNodes
    /\ \E parent \in 1..Len(json), raw \in ScanKeys, p \in ScanPayloads :
          /\ json[parent].obj
          /\ OnLastPath(json, parent, Len(json))
          /\ \A j \in 1..Len(json) : json[j].parent = parent => json[j].rawKey # raw
          /\ json' = Append(json, Node(parent, raw, p[1], p[2], p[3]))
    /\ UNCHANGED <<findings, rules, keyVars, packageName, version, matched, loadVars, runVars>>

Scan ==
    /\ findings = Undefined
    /\ findings' = scanPackageLock(json, 1, rules)
    /\ UNCHANGED <<json, rules, keyVars, packageName, version, matched, loadVars, runVars>>

NextScan == AddNode \/ Scan
SpecScan == InitScan /\ [][NextScan]_vars

\* ---- the loop of loadBadDependencyRules, on every feed that is an array
InitLoad ==
    /\ feedData \in SeqsUpTo(LoadEntries, MaxFeedLen) /\ loaded = Undefined
    /\ KeyIdle /\ MatchIdle /\ rules = EmptyObject /\ ScanIdle /\ RunIdle

Load ==
    /\ loaded = Undefined
    /\ loaded' = loadBadDependencyRules(ArrayFeed(feedData))
    /\ UNCHANGED <<feedData, keyVars, matchVars, scanVars, runVars>>

NextLoad == Load
SpecLoad == InitLoad /\ [][NextLoad]_vars

----------------------------------------------------------------------------
(* run                                                                     *)

Obj(own) == [t |-> "object", own |-> own]

\* a call of info, warn, error or setFailed (level "failed")
Msg(level, text) == [level |-> level, text |-> text]

Init ==
    /\ pc = "load"
    /\ feed \in Feeds
    /\ files \in SeqsUpTo(FileContents, MaxFiles)
    /\ badRules = Undefined /\ fileIdx = 0 /\ allFindings = <<>>
    /\ failed = FALSE /\ scans = 0 /\ log = <<>>
    /\ KeyIdle /\ MatchIdle /\ rules = EmptyObject /\ ScanIdle /\ LoadIdle

\* run, up to the check of the loaded rules; a throw ends in the catch of run
LoadRules ==
    /\ pc = "load"
    /\ LET r == loadBadDependencyRules(feed) IN
       IF r.kind = "throw"
       THEN /\ failed' = TRUE
            /\ pc' = "done"
            /\ log' = log \o <<Msg("info", "loading"), Msg("failed", r.error)>>
            /\ UNCHANGED badRules
       ELSE /\ badRules' = Obj(r.value)
            /\ UNCHANGED failed
            /\ IF DOMAIN r.value = {}
               THEN /\ pc' = "done"
                    /\ log' = log \o <<Msg("info", "loading"), Msg("info", "loaded"),
                                       Msg("warn", "nothing to check")>>
               ELSE /\ pc' = "glob"
                    /\ log' = log \o <<Msg("info", "loading"), Msg("info", "loaded")>>
    /\ UNCHANGED <<feed, files, fileIdx, allFindings, scans, keyVars, matchVars, scanVars, loadVars>>

\* run, from glob.create to the start of the loop over files
ListFiles ==
    /\ pc = "glob"
    /\ IF Len(files) = 0
       THEN pc' = "done" /\ log' = Append(log, Msg("info", "no files")) /\ UNCHANGED fileIdx
       ELSE pc' = "scan" /\ log' = Append(log, Msg("info", "found files")) /\ fileIdx' = 1
    /\ UNCHANGED <<feed, badRules, files, allFindings, failed, scans, keyVars, matchVars, scanVars, loadVars>>

\* allFindings.push(...findings)
PushAll(all, found) == all \o found

\* one iteration of the loop over files
ScanFile ==
    /\ pc = "scan"
    /\ fileIdx <= Len(files)
    /\ IF ~files[fileIdx].valid
       THEN /\ log' = Append(log, Msg("warn", "invalid JSON"))
            /\ fileIdx' = fileIdx + 1
            /\ UNCHANGED <<allFindings, failed, scans, pc>>
       ELSE LET r == scanPackageLock(files[fileIdx].json, fileIdx, badRules.own) IN
            /\ scans' = scans + 1
            /\ IF r.kind = "throw"
               THEN /\ failed' = TRUE
                    /\ pc' = "done"
                    /\ log' = Append(log, Msg("failed", r.error))
                    /\ UNCHANGED <<allFindings, fileIdx>>
               ELSE /\ allFindings' = PushAll(allFindings, r.value)
                    /\ fileIdx' = fileIdx + 1
                    /\ UNCHANGED <<failed, pc, log>>
    /\ UNCHANGED <<feed, badRules, files, keyVars, matchVars, scanVars, loadVars>>

\* run, after the loop: the summary
Report ==
    /\ pc = "scan"
    /\ fileIdx > Len(files)
    /\ pc' = "done"
    /\ IF Len(allFindings) > 0
       THEN /\ failed' = TRUE
            /\ log' = log \o [i \in 1..Len(allFindings) |-> Msg("error", "finding")]
                           \o <<Msg("failed", "detected")>>
       ELSE /\ UNCHANGED failed
            /\ log' = Append(log, Msg("info", "none found"))
    /\ UNCHANGED <<feed, badRules, files, fileIdx, allFindings, scans, keyVars, matchVars, scanVars, loadVars>>

Next == LoadRules \/ ListFiles \/ ScanFile \/ Report
Spec == Init /\ [][Next]_vars

----------------------------------------------------------------------------
(* The claims.                                                             *)

\* the elements of a sequence
Range(q) == {q[i] : i \in 1..Len(q)}

\* P + "." + K, and just K when P is empty
Dotted(P, K) == IF P = <<>> THEN K ELSE P \o <<".">> \o K

\* the location path of node j: the normalized keys from the root down to j
RECURSIVE PathOf(_, _)
PathOf(doc, j) ==
    IF j = 1 THEN <<>>
    ELSE Dotted(PathOf(doc, doc[j].parent), NormalizeKey(doc[j].rawKey))

\* match as the claims state it: none for a name without an entry in the RuleSet
ClaimedMatch(name, ver, ruleSet) ==
    IF name \notin DOMAIN ruleSet THEN Null
    ELSE matchBadRules(name, ver, ruleSet).value

\* node j is a keyed child whose normalized key and version match
ChildOccurs(doc, j, ruleSet) ==
    /\ j > 1 /\ doc[j].obj
    /\ ClaimedMatch(NormalizeKey(doc[j].rawKey), doc[j].version, ruleSet) # Null

ChildFinding(doc, j, ruleSet) ==
    Finding(1, Dotted(PathOf(doc, doc[j].parent), NormalizeKey(doc[j].rawKey)),
            NormalizeKey(doc[j].rawKey), doc[j].version,
            ClaimedMatch(NormalizeKey(doc[j].rawKey), doc[j].version, ruleSet).items)

\* node j is an object whose own name and version match
SelfOccurs(doc, j, ruleSet) ==
    /\ doc[j].obj /\ Truthy(doc[j].name) /\ Truthy(doc[j].version)
    /\ ClaimedMatch(doc[j].name.s, doc[j].version, ruleSet) # Null

SelfFinding(doc, j, ruleSet) ==
    Finding(1, IF j = 1 THEN ROOT_LOCATION ELSE PathOf(doc, j), doc[j].name.s,
            doc[j].version, ClaimedMatch(doc[j].name.s, doc[j].version, ruleSet).items)

\* C1: the run is marked failed only if the rule feed failed (unavailable, bad
\* status, no JSON, no array) or at least one Finding was aggregated; a malformed
\* feed entry or an issue of a file or node leaves the run not failed.
C1_FailedOnlyByFeedOrFindings ==
    (pc = "done" /\ failed) => (feed.status # "array" \/ Len(allFindings) > 0)

\* the RuleSet built from the array entries of a feed: per name, the ranges of its
\* entries in feed order
RECURSIVE RangesOf(_, _, _)
RangesOf(d, name, i) ==
    IF i > Len(d) THEN <<>>
    ELSE (IF d[i].isArray /\ EntryName(d[i]) = name THEN EntryRanges(d[i]) ELSE <<>>)
         \o RangesOf(d, name, i + 1)

ClaimedRuleSet(d) ==
    [name \in {EntryName(d[i]) : i \in {i \in 1..Len(d) : d[i].isArray}} |->
        RangesOf(d, name, 1)]

\* C2: for a feed that is a list, an entry that is not an array is skipped and is
\* not fatal: normalization completes and returns the RuleSet built from all the
\* array entries of the feed, before and after the skipped entry.
C2_NonArrayEntrySkipped ==
    (loaded # Undefined /\ \E i \in 1..Len(feedData) : ~feedData[i].isArray)
        => loaded = Return(ClaimedRuleSet(feedData))

\* the RuleSet holds a pattern for some name (a name without patterns is absent)
HasPatterns(ruleSet) == \E n \in DOMAIN ruleSet : Len(ruleSet[n]) > 0

\* C3: no lockfile is scanned unless the feed was loaded into a non-empty RuleSet
\* (a name with zero patterns counting as absent): a feed that failed fails the
\* run before any scan, and an empty RuleSet ends the run successfully with the
\* "nothing to check" warning, zero scans and zero Findings.
C3_NoScanWithoutRules ==
    /\ scans > 0 => (badRules # Undefined /\ HasPatterns(badRules.own))
    /\ (pc = "done" /\ feed.status # "array") => (failed /\ scans = 0)
    /\ (pc = "done" /\ badRules # Undefined /\ ~HasPatterns(badRules.own))
          => /\ ~failed /\ scans = 0 /\ allFindings = <<>>
             /\ log[Len(log)] = Msg("warn", "nothing to check")

\* C4: for a package name without an entry in the RuleSet the normalizer built
\* (or with an empty pattern list) and a version value of any type, match returns
\* none: it never throws and never returns a list, whatever string the name is.
C4_AbsentNameIsNone ==
    (matched # Undefined
        /\ (packageName \notin DOMAIN rules \/ Len(rules[packageName]) = 0))
        => matched = Return(Null)

\* the subsequence of patterns that are the literal * or are satisfied by v
Satisfied(patterns, v) ==
    SelectSeq(patterns, LAMBDA r : r = STAR \/ SemverSatisfies(v, r))

\* C5: for a name with a non-empty pattern list and a version string that
\* coerces, the result is exactly the subsequence of the name's patterns, in
\* RuleSet order and with duplicates kept, that are the literal * or are
\* satisfied by the coerced version; it is none exactly when that subsequence is
\* empty. Includes the three @acme/bad examples of the spec.
C5_MatchAllInOrder ==
    /\ (matched # Undefined /\ packageName \in DOMAIN rules /\ version.t = "string")
          => \A v \in {SemverCoerce(version.s)} :
                (v # Null /\ Len(rules[packageName]) > 0)
                  => \A sub \in {Satisfied(rules[packageName], v)} :
                        matched = IF sub = <<>> THEN Return(Null) ELSE Return(Arr(sub))
    /\ (matched # Undefined /\ packageName = ACME_BAD /\ rules = ReadmeRules)
          => /\ version = Str(V_1_0_5) => matched = Return(Arr(<<X_RANGE>>))
             /\ version = Str(V_1_1_3) => matched = Return(Arr(<<CARET_RANGE>>))
             /\ version = Str(V_2_0_0) => matched = Return(Null)

\* C5's case: two of three patterns match (match-all), the middle one does not
C5_Witness ==
    /\ packageName = EVIL_PACKAGE /\ version = Str(V_2_0_0)
    /\ EVIL_PACKAGE \in DOMAIN rules
    /\ rules[EVIL_PACKAGE] = <<STAR, X_RANGE, STAR_PADDED>>
    /\ matched = Return(Arr(<<STAR, STAR_PADDED>>))

\* a pattern of the name equals * after trimming white space
HasStar(patterns) == \E i \in 1..Len(patterns) : Trim(patterns[i]) = STAR

\* C6: for a name one of whose patterns is * after trimming, match returns a list
\* for every non-empty version string, coercible or not; an uncoercible version
\* gives exactly ["*"], and gives none when no pattern is a wildcard.
C6_WildcardFallback ==
    (matched # Undefined /\ packageName \in DOMAIN rules
        /\ version.t = "string" /\ Len(version.s) > 0)
        => /\ HasStar(rules[packageName])
                => (matched.kind = "return" /\ matched.value.t = "array")
           /\ SemverCoerce(version.s) = Null
                => matched = IF HasStar(rules[packageName])
                             THEN Return(Arr(<<STAR>>)) ELSE Return(Null)

\* C6's case: an uncoercible version, the only wildcard being " * "
C6_Witness ==
    /\ packageName = EVIL_PACKAGE /\ version = Str(NOT_A_VERSION)
    /\ EVIL_PACKAGE \in DOMAIN rules
    /\ rules[EVIL_PACKAGE] = <<X_RANGE, STAR_PADDED>>
    /\ matched = Return(Arr(<<STAR>>))

\* C7: for every object node at path P and every property of it whose value is
\* an object with a version, if the normalized key K is in the RuleSet and
\* match(K, version) is not none, scan emits a Finding with name K, that version,
\* the match result and location P.K (K when P is empty); the lockfile
\* {"dependencies": {"node_modules/@acme/bad": {"version": "1.0.2"}}} gives
\* exactly one Finding, at dependencies.@acme/bad.
C7_ChildMapFinding ==
    findings # Undefined =>
        /\ \A j \in 1..Len(json) :
              ChildOccurs(json, j, rules)
                => /\ findings.kind = "return"
                   /\ ChildFinding(json, j, rules) \in Range(findings.value)
        /\ json = DocBad
              => findings = Return(<<Finding(1, DEPENDENCIES \o <<".">> \o ACME_BAD,
                                             ACME_BAD, Str(V_1_0_2), <<X_RANGE>>)>>)

\* the files among the first n of fs that parse, scanned: their Findings in file
\* order, each file's in the order scan found them
RECURSIVE ScannedUpTo(_, _, _)
ScannedUpTo(fs, ruleSet, n) ==
    IF n = 0 THEN <<>>
    ELSE ScannedUpTo(fs, ruleSet, n - 1)
         \o (IF fs[n].valid THEN scanPackageLock(fs[n].json, n, ruleSet).value ELSE <<>>)

\* C8: for every sequence of lockfiles, the aggregated Findings of the run are
\* the concatenation, in file scan order, of scan's result for each file that
\* parses; a file with invalid JSON is skipped and neither removes, reorders nor
\* prevents the Findings of the other files. (fileIdx >= 1: the loop was entered.)
C8_FindingsInFileOrder ==
    (pc = "done" /\ fileIdx >= 1)
        => /\ fileIdx = Len(files) + 1
           /\ allFindings = ScannedUpTo(files, badRules.own, Len(files))

\* C9: scan returns exactly one Finding per matching occurrence and nothing else:
\* one per object node whose own name and version match, one per keyed child
\* whose normalized key and version match, over all object nodes reachable from
\* the root; none is dropped or merged.
C9_OneFindingPerOccurrence ==
    findings # Undefined =>
        /\ findings.kind = "return"
        /\ Len(findings.value)
              = Cardinality({j \in 1..Len(json) : SelfOccurs(json, j, rules)})
                + Cardinality({j \in 1..Len(json) : ChildOccurs(json, j, rules)})
        /\ \A j \in 1..Len(json) :
              /\ SelfOccurs(json, j, rules)
                    => SelfFinding(json, j, rules) \in Range(findings.value)
              /\ ChildOccurs(json, j, rules)
                    => ChildFinding(json, j, rules) \in Range(findings.value)

\* the positions of the slashes of s before position n, and 0
SlashesBefore(s, n) == {i \in 1..(n - 1) : s[i] = "/"} \cup {0}

\* the key's final segment, prefixed by the preceding segment and a slash when
\* that segment starts with @
LastSegmentWithScope(s) ==
    LET last == Max(SlashesBefore(s, Len(s) + 1))
        prev == IF last = 0 THEN 0 ELSE Max(SlashesBefore(s, last))
    IN IF last > 0 /\ prev + 1 < last /\ s[prev + 1] = "@"
       THEN Slice(s, prev + 1, Len(s))
       ELSE Slice(s, last + 1, Len(s))

\* every segment of s is non-empty and none is a bare @
PlainSegments(s) ==
    /\ Len(s) > 0 /\ s[1] # "/" /\ s[Len(s)] # "/"
    /\ \A i \in 1..(Len(s) - 1) : ~(s[i] = "/" /\ s[i + 1] = "/")
    /\ \A i \in 1..Len(s) :
          ~(s[i] = "@" /\ (i = 1 \/ s[i - 1] = "/") /\ (i = Len(s) \/ s[i + 1] = "/"))

\* C10: the normalized key is the raw key's final segment, prefixed by the
\* preceding segment and a slash only when that segment starts with @ (stated
\* here for the keys whose segments are non-empty and not a bare @).
C10_KeyIsLastSegmentWithScope ==
    (key # Undefined /\ PlainSegments(rawKey)) => key.s = LastSegmentWithScope(rawKey)

============================================================================
